---- MODULE Spec2Model ----
(***************************************************************************)
(* Verification model of heyrovsky/disturb: the peer identity and          *)
(* connection-management layer.                                            *)
(*                                                                         *)
(*   SpecRegistry  connection registry (client.ClientMap)                  *)
(*   SpecContext   dispatch context (message.HandleContext)                *)
(*   SpecNode      node start / stop (p2p.Node)                            *)
(*   SpecCodec     wire message and peer identity codecs                   *)
(*                 (message.Message, id.ID, utils.NormalizeIP)             *)
(*                                                                         *)
(* Of ClientMap, HandleContext and Node the source holds the declarations  *)
(* (the structs and newClientMap); their operations follow sections 4.3,   *)
(* 4.4, 4.6, 5, 7 and 9 of the specification.  The codecs are in the       *)
(* source.                                                                 *)
(***************************************************************************)
EXTENDS Integers, Sequences, FiniteSets, TLC

(***************************************************************************)
(* Bounds of the model.                                                    *)
(***************************************************************************)
MaxCap == 2
MaxOps == 4
MaxCalls == 4
MaxNodeCalls == 4
MaxInbound == 2
MaxDataLen == 2
MaxDstLen == 2
MaxExtra == 2

Addrs == {"a", "b", "c"}
Callers == {1, 2}
NoCaller == 0
NoHandle == 0
ErrFull == 0 - 1

VARIABLES
    \* ---- client.ClientMap
    capArg,     \* the capacity newClientMap was called with
    cmCap,      \* ClientMap.cap
    order,      \* ClientMap.order: addresses, front (index 1) = most recent
    entries,    \* ClientMap.entries: address -> client handle
    mu,         \* ClientMap.Mutex: the caller holding it, or NoCaller
    closed,     \* client handle -> number of times its connection was closed
    \* ---- callers of the registry
    pc,         \* caller -> position
    cur,        \* caller -> the operation it is performing
    ret,        \* caller -> result of its last operation
    nOps,       \* operations invoked so far
    nextH,      \* next fresh client handle
    \* ---- history (observation only)
    clock,      \* number of operation bodies run under the mutex so far
    scen,       \* how far the operations run so far follow Scenario, or Off
    touch,      \* address -> value of clock at its most recent touch
    lastEvict,  \* what the last eviction removed, and the stalest entry then
    \* ---- message.HandleContext and the handlers that answer through it
    ctxSend,    \* context -> HandleContext.Send
    hpc,        \* handler -> position
    hctx,       \* handler -> the context it is answering
    hret,       \* handler -> result of its last markResponseSent
    okCount,    \* context -> calls that succeeded
    failCount,  \* context -> calls that failed with ResponseAlreadySent
    nCalls,     \* markResponseSent calls made so far
    \* ---- p2p.Node and the goroutines that start and stop it
    nPort,      \* Node.port
    nListening, \* Node.listening
    nListener,  \* Node.listener: a listener id, or NoListener
    openL,      \* the listeners that are open
    nextL,      \* next fresh listener id
    conns,      \* addresses of the connections the node has registered
    npc,        \* goroutine -> position in start / stop
    nret,       \* goroutine -> result of its last start / stop
    nnoop,      \* goroutine -> "start" / "stop" when that call was a no-op
    nodeCalls,  \* start / stop calls made so far
    raced,      \* TRUE once two calls of start / stop have overlapped
    \* ---- message.Message, id.ID: inputs and results of the codecs
    cin,        \* which inputs were drawn: "msg", "buf" or "id"
    cop,        \* the operations applied so far
    msg,        \* a Message
    dst,        \* the destination buffer handed to Message.Marshal
    buf,        \* a byte buffer handed to a decoder
    idv,        \* an ID
    wire,       \* the bytes the last Marshal returned
    dec,        \* what Unmarshal returned
    decID,      \* what UnmarshalID returned
    num,        \* what ID.Size returned
    str         \* what ID.Address returned

regVars == <<capArg, cmCap, order, entries, mu, closed, pc, cur, ret, nOps,
             nextH, clock, scen, touch, lastEvict>>

ctxVars == <<ctxSend, hpc, hctx, hret, okCount, failCount, nCalls>>

nodeVars == <<nPort, nListening, nListener, openL, nextL, conns, npc, nret,
              nnoop, nodeCalls, raced>>

codecVars == <<cin, cop, msg, dst, buf, idv, wire, dec, decID, num, str>>

vars == <<regVars, ctxVars, nodeVars, codecVars>>

\* what the actions of one component leave alone
RegFrame == UNCHANGED <<ctxVars, nodeVars, codecVars>>
CtxFrame == UNCHANGED <<regVars, nodeVars, codecVars>>
NodeFrame == UNCHANGED <<regVars, ctxVars, codecVars>>
CodecFrame == UNCHANGED <<regVars, ctxVars, nodeVars>>

(***************************************************************************)
(* Sequence helpers (container/list operations on the order list).         *)
(***************************************************************************)
RECURSIVE Without(_, _)
Without(s, x) ==
    IF s = << >> THEN << >>
    ELSE IF Head(s) = x THEN Without(Tail(s), x)
    ELSE <<Head(s)>> \o Without(Tail(s), x)

\* list.PushFront
PushFront(s, x) == <<x>> \o s

\* list.MoveToFront
MoveToFront_pushesAgain(s, x) == <<x>> \o s

MoveToFront(s, x) == <<x>> \o Without(s, x)

\* list.Back
Back(s) == s[Len(s)]

Range(s) == {s[i] : i \in 1..Len(s)}

Keys == DOMAIN entries

MapPut(f, k, v) == [x \in (DOMAIN f) \cup {k} |-> IF x = k THEN v ELSE f[x]]

MapDel(f, k) == [x \in (DOMAIN f) \ {k} |-> f[x]]

EmptyMap == [x \in {} |-> NoHandle]

(***************************************************************************)
(* client.newClientMap                                                     *)
(***************************************************************************)
newClientMap_capOffByOne(cap) ==
    [cap |-> cap + 1, order |-> << >>, entries |-> EmptyMap]

newClientMap_capUnset(cap) ==
    [cap |-> 0, order |-> << >>, entries |-> EmptyMap]

newClientMap(cap) ==
    [cap |-> cap, order |-> << >>, entries |-> EmptyMap]

\* ev: the number of entries the operation has removed from the registry
NoOp == [kind |-> "none", addr |-> "a", h |-> NoHandle, ev |-> 0]
NoEvict == [addr |-> "none", stalest |-> {}]

RegInit ==
    /\ capArg \in 0..MaxCap
    /\ LET cm == newClientMap(capArg) IN
         /\ cmCap = cm.cap
         /\ order = cm.order
         /\ entries = cm.entries
    /\ mu = NoCaller
    /\ closed = EmptyMap
    /\ pc = [t \in Callers |-> "idle"]
    /\ cur = [t \in Callers |-> NoOp]
    /\ ret = [t \in Callers |-> NoHandle]
    /\ nOps = 0
    /\ nextH = 1
    /\ clock = 0
    /\ scen = 0
    /\ touch = EmptyMap
    /\ lastEvict = NoEvict

RegOff ==
    /\ capArg = 0 /\ cmCap = 0 /\ order = << >> /\ entries = EmptyMap
    /\ mu = NoCaller /\ closed = EmptyMap
    /\ pc = [t \in Callers |-> "idle"]
    /\ cur = [t \in Callers |-> NoOp]
    /\ ret = [t \in Callers |-> NoHandle]
    /\ nOps = 0 /\ nextH = 1 /\ clock = 0 /\ scen = 0
    /\ touch = EmptyMap /\ lastEvict = NoEvict

(***************************************************************************)
(* A caller invokes get / put / remove and then waits for the mutex.       *)
(***************************************************************************)
InvokeGet(t, a) ==
    /\ pc[t] = "idle"
    /\ nOps < MaxOps
    /\ pc' = [pc EXCEPT ![t] = "lock"]
    /\ cur' = [cur EXCEPT ![t] = [kind |-> "get", addr |-> a, h |-> NoHandle,
                                   ev |-> 0]]
    /\ nOps' = nOps + 1
    /\ UNCHANGED <<capArg, cmCap, order, entries, mu, closed, ret, nextH,
                   clock, scen, touch, lastEvict>>
    /\ RegFrame

InvokePut(t, a) ==
    /\ pc[t] = "idle"
    /\ nOps < MaxOps
    /\ pc' = [pc EXCEPT ![t] = "lock"]
    /\ cur' = [cur EXCEPT ![t] = [kind |-> "put", addr |-> a, h |-> nextH,
                                   ev |-> 0]]
    /\ nOps' = nOps + 1
    /\ nextH' = nextH + 1
    /\ UNCHANGED <<capArg, cmCap, order, entries, mu, closed, ret, clock,
                   scen, touch, lastEvict>>
    /\ RegFrame

InvokeRemove(t, a) ==
    /\ pc[t] = "idle"
    /\ nOps < MaxOps
    /\ pc' = [pc EXCEPT ![t] = "lock"]
    /\ cur' = [cur EXCEPT ![t] = [kind |-> "remove", addr |-> a, h |-> NoHandle,
                                   ev |-> 0]]
    /\ nOps' = nOps + 1
    /\ UNCHANGED <<capArg, cmCap, order, entries, mu, closed, ret, nextH,
                   clock, scen, touch, lastEvict>>
    /\ RegFrame

\* sync.Mutex.Lock
Lock(t) ==
    /\ pc[t] = "lock"
    /\ mu = NoCaller
    /\ mu' = t
    /\ pc' = [pc EXCEPT ![t] = cur[t].kind]
    /\ UNCHANGED <<capArg, cmCap, order, entries, closed, cur, ret, nOps,
                   nextH, clock, scen, touch, lastEvict>>
    /\ RegFrame

\* sync.Mutex.Unlock
Unlock(t) ==
    /\ pc[t] = "unlock"
    /\ mu = t
    /\ mu' = NoCaller
    /\ pc' = [pc EXCEPT ![t] = "idle"]
    /\ cur' = [cur EXCEPT ![t] = NoOp]
    /\ UNCHANGED <<capArg, cmCap, order, entries, closed, ret, nOps, nextH,
                   clock, scen, touch, lastEvict>>
    /\ RegFrame

Stamp(a) == MapPut(touch, a, clock + 1)

\* section 8 of the specification: put(a), put(b), get(a), put(c)
Scenario == << <<"put", "a">>, <<"put", "b">>, <<"get", "a">>, <<"put", "c">> >>
Off == 0 - 1

\* the operation whose body runs now is recorded
Record(op) ==
    /\ clock' = clock + 1
    /\ scen' = IF scen # Off /\ scen < Len(Scenario)
                  /\ Scenario[scen + 1] = <<op.kind, op.addr>>
               THEN scen + 1 ELSE Off

\* the entries whose most recent touch is the oldest
Stalest == {a \in Keys : \A b \in Keys : touch[a] <= touch[b]}

(***************************************************************************)
(* get(address): on hit promote and return the handle, on miss nothing.    *)
(***************************************************************************)
Get(t) ==
    /\ pc[t] = "get"
    /\ mu = t
    /\ LET a == cur[t].addr IN
         IF a \in Keys
         THEN /\ order' = MoveToFront(order, a)
              /\ ret' = [ret EXCEPT ![t] = entries[a]]
              /\ touch' = Stamp(a)
         ELSE /\ ret' = [ret EXCEPT ![t] = NoHandle]
              /\ UNCHANGED <<order, touch>>
    /\ Record(cur[t])
    /\ pc' = [pc EXCEPT ![t] = "unlock"]
    /\ UNCHANGED <<capArg, cmCap, entries, mu, closed, cur, nOps, nextH,
                   lastEvict>>
    /\ RegFrame

(***************************************************************************)
(* put(address, handle), first half: an existing address has its handle    *)
(* replaced and is promoted; otherwise a full registry evicts its least    *)
(* recently used entry (the back of the order list) and closes it.         *)
(***************************************************************************)
PutReplace(t) ==
    /\ pc[t] = "put"
    /\ mu = t
    /\ cur[t].addr \in Keys
    /\ entries' = [entries EXCEPT ![cur[t].addr] = cur[t].h]
    /\ order' = MoveToFront(order, cur[t].addr)
    /\ touch' = Stamp(cur[t].addr)
    /\ Record(cur[t])
    /\ pc' = [pc EXCEPT ![t] = "unlock"]
    /\ UNCHANGED <<capArg, cmCap, mu, closed, cur, ret, nOps, nextH,
                   lastEvict>>
    /\ RegFrame

PutEvict(t) ==
    /\ pc[t] = "put"
    /\ mu = t
    /\ cur[t].addr \notin Keys
    /\ ~(Cardinality(Keys) = cmCap /\ order = << >>)
    /\ IF Cardinality(Keys) = cmCap
       THEN LET victim == Back(order) IN
              /\ lastEvict' = [addr |-> victim, stalest |-> Stalest]
              /\ closed' = MapPut(closed, entries[victim],
                                  IF entries[victim] \in DOMAIN closed
                                  THEN closed[entries[victim]] + 1 ELSE 1)
              /\ entries' = MapDel(entries, victim)
              /\ order' = Without(order, victim)
              /\ touch' = MapDel(touch, victim)
       ELSE UNCHANGED <<lastEvict, closed, entries, order, touch>>
    /\ cur' = [cur EXCEPT ![t].ev = Cardinality(Keys) - Cardinality(DOMAIN entries')]
    /\ pc' = [pc EXCEPT ![t] = "insert"]
    /\ UNCHANGED <<capArg, cmCap, mu, ret, nOps, nextH, clock, scen>>
    /\ RegFrame

\* put on a full registry with nothing to evict (capacity 0): the capacity
\* error of section 7, and nothing is inserted
PutFull(t) ==
    /\ pc[t] = "put"
    /\ mu = t
    /\ cur[t].addr \notin Keys
    /\ Cardinality(Keys) = cmCap /\ order = << >>
    /\ ret' = [ret EXCEPT ![t] = ErrFull]
    /\ Record(cur[t])
    /\ pc' = [pc EXCEPT ![t] = "unlock"]
    /\ UNCHANGED <<capArg, cmCap, order, entries, mu, closed, cur, nOps,
                   nextH, touch, lastEvict>>
    /\ RegFrame

\* put, second half: insert at the most-recently-used end
PutInsert(t) ==
    /\ pc[t] = "insert"
    /\ mu = t
    /\ entries' = MapPut(entries, cur[t].addr, cur[t].h)
    /\ order' = PushFront(order, cur[t].addr)
    /\ touch' = Stamp(cur[t].addr)
    /\ Record(cur[t])
    /\ pc' = [pc EXCEPT ![t] = "unlock"]
    /\ UNCHANGED <<capArg, cmCap, mu, closed, cur, ret, nOps, nextH,
                   lastEvict>>
    /\ RegFrame

\* the connection of a client handle is closed (counted per handle)
CloseConn(h) ==
    MapPut(closed, h, IF h \in DOMAIN closed THEN closed[h] + 1 ELSE 1)

(***************************************************************************)
(* remove(address): delete the entry and its order-list node if present.   *)
(* The registry owns the client handle (section 3), so the entry's         *)
(* connection is released with it.                                         *)
(***************************************************************************)
Remove(t) ==
    /\ pc[t] = "remove"
    /\ mu = t
    /\ LET a == cur[t].addr IN
         IF a \in Keys
         THEN /\ entries' = MapDel(entries, a)
              /\ order' = Without(order, a)
              /\ touch' = MapDel(touch, a)
              /\ closed' = CloseConn(entries[a])
              /\ cur' = [cur EXCEPT ![t].ev = 1]
         ELSE UNCHANGED <<entries, order, touch, closed, cur>>
    /\ Record(cur[t])
    /\ pc' = [pc EXCEPT ![t] = "unlock"]
    /\ UNCHANGED <<capArg, cmCap, mu, ret, nOps, nextH, lastEvict>>
    /\ RegFrame

(***************************************************************************)
(* Idle handling (section 4.4): the idle timer of a registered connection  *)
(* fires while its entry is in the registry; by the time the sweep holds   *)
(* the registry's mutex the entry may be gone.  The sweep takes the mutex  *)
(* like every other operation; an entry still present is removed from the  *)
(* map and the order list and its connection closed, an entry already gone *)
(* is left alone.                                                          *)
(***************************************************************************)
InvokeSweep(t, a) ==
    /\ pc[t] = "idle"
    /\ a \in Keys
    /\ nOps < MaxOps
    /\ pc' = [pc EXCEPT ![t] = "lock"]
    /\ cur' = [cur EXCEPT ![t] = [kind |-> "sweep", addr |-> a, h |-> NoHandle,
                                   ev |-> 0]]
    /\ nOps' = nOps + 1
    /\ UNCHANGED <<capArg, cmCap, order, entries, mu, closed, ret, nextH,
                   clock, scen, touch, lastEvict>>
    /\ RegFrame

Sweep_keepsEntry(t) ==
    /\ pc[t] = "sweep"
    /\ mu = t
    /\ LET a == cur[t].addr IN
         IF a \in Keys
         THEN /\ closed' = CloseConn(entries[a])
              /\ cur' = [cur EXCEPT ![t].ev = 1]
         ELSE UNCHANGED <<closed, cur>>
    /\ Record(cur[t])
    /\ pc' = [pc EXCEPT ![t] = "unlock"]
    /\ UNCHANGED <<capArg, cmCap, order, entries, mu, ret, nOps, nextH,
                   touch, lastEvict>>
    /\ RegFrame

Sweep(t) ==
    /\ pc[t] = "sweep"
    /\ mu = t
    /\ LET a == cur[t].addr IN
         IF a \in Keys
         THEN /\ entries' = MapDel(entries, a)
              /\ order' = Without(order, a)
              /\ touch' = MapDel(touch, a)
              /\ closed' = CloseConn(entries[a])
              /\ cur' = [cur EXCEPT ![t].ev = 1]
         ELSE UNCHANGED <<entries, order, touch, closed, cur>>
    /\ Record(cur[t])
    /\ pc' = [pc EXCEPT ![t] = "unlock"]
    /\ UNCHANGED <<capArg, cmCap, mu, ret, nOps, nextH, lastEvict>>
    /\ RegFrame

RegNext ==
    \E t \in Callers :
        \/ \E a \in Addrs : InvokeGet(t, a)
        \/ \E a \in Addrs : InvokePut(t, a)
        \/ \E a \in Addrs : InvokeRemove(t, a)
        \/ \E a \in Addrs : InvokeSweep(t, a)
        \/ Lock(t)
        \/ Get(t)
        \/ PutReplace(t)
        \/ PutEvict(t)
        \/ PutFull(t)
        \/ PutInsert(t)
        \/ Remove(t)
        \/ Sweep(t)
        \/ Unlock(t)

(***************************************************************************)
(* message.HandleContext.  The struct is in the source; markResponseSent   *)
(* follows section 4.6 of the specification: one atomic test-and-set of    *)
(* Send (atomic.Bool.CompareAndSwap(false, true)).                         *)
(***************************************************************************)
Contexts == {1, 2}
Handlers == {1, 2, 3}
NoContext == 0

\* the zero value of HandleContext.Send
HandleContext_sendPreset == [Send |-> TRUE]

HandleContext == [Send |-> FALSE]

CtxInit ==
    /\ ctxSend = [c \in Contexts |-> HandleContext.Send]
    /\ hpc = [h \in Handlers |-> "idle"]
    /\ hctx = [h \in Handlers |-> NoContext]
    /\ hret = [h \in Handlers |-> "none"]
    /\ okCount = [c \in Contexts |-> 0]
    /\ failCount = [c \in Contexts |-> 0]
    /\ nCalls = 0

CtxOff ==
    /\ ctxSend = << >> /\ hpc = << >> /\ hctx = << >> /\ hret = << >>
    /\ okCount = << >> /\ failCount = << >> /\ nCalls = 0

\* a handler starts a call of markResponseSent on a context
CallMark(h, c) ==
    /\ hpc[h] = "idle"
    /\ nCalls < MaxCalls
    /\ hpc' = [hpc EXCEPT ![h] = "cas"]
    /\ hctx' = [hctx EXCEPT ![h] = c]
    /\ hret' = [hret EXCEPT ![h] = "none"]
    /\ nCalls' = nCalls + 1
    /\ UNCHANGED <<ctxSend, okCount, failCount>>
    /\ CtxFrame

\* markResponseSent: the atomic test-and-set, first caller wins
markResponseSent(h) ==
    /\ hpc[h] = "cas"
    /\ LET c == hctx[h] IN
         IF ctxSend[c] = FALSE
         THEN /\ ctxSend' = [ctxSend EXCEPT ![c] = TRUE]
              /\ hret' = [hret EXCEPT ![h] = "ok"]
              /\ okCount' = [okCount EXCEPT ![c] = @ + 1]
              /\ UNCHANGED failCount
         ELSE /\ hret' = [hret EXCEPT ![h] = "ResponseAlreadySent"]
              /\ failCount' = [failCount EXCEPT ![c] = @ + 1]
              /\ UNCHANGED <<ctxSend, okCount>>
    /\ hpc' = [hpc EXCEPT ![h] = "ret"]
    /\ UNCHANGED <<hctx, nCalls>>
    /\ CtxFrame

\* the call returns to the handler
ReturnMark(h) ==
    /\ hpc[h] = "ret"
    /\ hpc' = [hpc EXCEPT ![h] = "idle"]
    /\ UNCHANGED <<ctxSend, hctx, hret, okCount, failCount, nCalls>>
    /\ CtxFrame

CtxNext ==
    \E h \in Handlers :
        \/ \E c \in Contexts : CallMark(h, c)
        \/ markResponseSent(h)
        \/ ReturnMark(h)

(***************************************************************************)
(* p2p.Node.  The struct is in the source; start and stop follow sections  *)
(* 4.4, 5 and 9 of the specification: listening is read and written with   *)
(* plain atomic loads and stores and no lock is held around them.          *)
(***************************************************************************)
Goroutines == {1, 2}
NoListener == 0
Ports == {0, 8080}

\* the zero value of Node.listening and Node.listener
Node_listeningPreset == [listening |-> TRUE, listener |-> NoListener]

Node == [listening |-> FALSE, listener |-> NoListener]

NodeInit ==
    /\ nPort \in Ports
    /\ nListening = Node.listening
    /\ nListener = Node.listener
    /\ openL = {}
    /\ nextL = 1
    /\ conns = {}
    /\ npc = [g \in Goroutines |-> "idle"]
    /\ nret = [g \in Goroutines |-> "none"]
    /\ nnoop = [g \in Goroutines |-> "none"]
    /\ nodeCalls = 0
    /\ raced = FALSE

NodeOff ==
    /\ nPort = 0 /\ nListening = FALSE /\ nListener = NoListener
    /\ openL = {} /\ nextL = 1 /\ conns = {}
    /\ npc = << >> /\ nret = << >> /\ nnoop = << >>
    /\ nodeCalls = 0 /\ raced = FALSE

Overlaps(g) == \E o \in Goroutines \ {g} : npc[o] # "idle"

\* a goroutine calls start()
CallStart(g) ==
    /\ nnoop' = [nnoop EXCEPT ![g] = "none"]
    /\ npc[g] = "idle"
    /\ nodeCalls < MaxNodeCalls
    /\ npc' = [npc EXCEPT ![g] = "start"]
    /\ nret' = [nret EXCEPT ![g] = "none"]
    /\ nodeCalls' = nodeCalls + 1
    /\ raced' = (raced \/ Overlaps(g))
    /\ UNCHANGED <<nPort, nListening, nListener, openL, nextL, conns>>
    /\ NodeFrame

\* a goroutine calls stop()
CallStop(g) ==
    /\ nnoop' = [nnoop EXCEPT ![g] = "none"]
    /\ npc[g] = "idle"
    /\ nodeCalls < MaxNodeCalls
    /\ npc' = [npc EXCEPT ![g] = "stop"]
    /\ nret' = [nret EXCEPT ![g] = "none"]
    /\ nodeCalls' = nodeCalls + 1
    /\ raced' = (raced \/ Overlaps(g))
    /\ UNCHANGED <<nPort, nListening, nListener, openL, nextL, conns>>
    /\ NodeFrame

\* start: listening.Load(); already listening is a no-op
StartLoad(g) ==
    /\ npc[g] = "start"
    /\ IF nListening
       THEN /\ npc' = [npc EXCEPT ![g] = "idle"]
            /\ nret' = [nret EXCEPT ![g] = "nil"]
            /\ nnoop' = [nnoop EXCEPT ![g] = "start"]
       ELSE /\ npc' = [npc EXCEPT ![g] = "listen"]
            /\ UNCHANGED <<nret, nnoop>>
    /\ UNCHANGED <<nPort, nListening, nListener, openL, nextL, conns,
                   nodeCalls, raced>>
    /\ NodeFrame

\* start: net.Listen on host:port; a fixed port that is already bound
\* cannot be bound again, port 0 asks for any free port
StartListen(g) ==
    /\ UNCHANGED nnoop
    /\ npc[g] = "listen"
    /\ IF nPort = 0 \/ openL = {}
       THEN /\ nListener' = nextL
            /\ openL' = openL \cup {nextL}
            /\ nextL' = nextL + 1
            /\ npc' = [npc EXCEPT ![g] = "store"]
            /\ UNCHANGED nret
       ELSE /\ npc' = [npc EXCEPT ![g] = "idle"]
            /\ nret' = [nret EXCEPT ![g] = "error"]
            /\ UNCHANGED <<nListener, openL, nextL>>
    /\ UNCHANGED <<nPort, nListening, conns, nodeCalls, raced>>
    /\ NodeFrame

\* start: listening.Store(true)
StartStore(g) ==
    /\ UNCHANGED nnoop
    /\ npc[g] = "store"
    /\ nListening' = TRUE
    /\ npc' = [npc EXCEPT ![g] = "idle"]
    /\ nret' = [nret EXCEPT ![g] = "nil"]
    /\ UNCHANGED <<nPort, nListener, openL, nextL, conns, nodeCalls, raced>>
    /\ NodeFrame

\* stop: listening.Load(); already stopped is a no-op
StopLoad(g) ==
    /\ npc[g] = "stop"
    /\ IF ~nListening
       THEN /\ npc' = [npc EXCEPT ![g] = "idle"]
            /\ nret' = [nret EXCEPT ![g] = "nil"]
            /\ nnoop' = [nnoop EXCEPT ![g] = "stop"]
       ELSE /\ npc' = [npc EXCEPT ![g] = "close"]
            /\ UNCHANGED <<nret, nnoop>>
    /\ UNCHANGED <<nPort, nListening, nListener, openL, nextL, conns,
                   nodeCalls, raced>>
    /\ NodeFrame

\* stop: close the listener and every registered connection
StopClose(g) ==
    /\ UNCHANGED nnoop
    /\ npc[g] = "close"
    /\ openL' = openL \ {nListener}
    /\ conns' = {}
    /\ npc' = [npc EXCEPT ![g] = "unstore"]
    /\ UNCHANGED <<nPort, nListening, nListener, nextL, nret, nodeCalls,
                   raced>>
    /\ NodeFrame

\* stop: listening.Store(false)
StopStore(g) ==
    /\ UNCHANGED nnoop
    /\ npc[g] = "unstore"
    /\ nListening' = FALSE
    /\ npc' = [npc EXCEPT ![g] = "idle"]
    /\ nret' = [nret EXCEPT ![g] = "nil"]
    /\ UNCHANGED <<nPort, nListener, openL, nextL, conns, nodeCalls, raced>>
    /\ NodeFrame

\* accept path: a connection from the listener is registered
Accept(a) ==
    /\ UNCHANGED nnoop
    /\ nListening
    /\ nListener \in openL
    /\ a \notin conns
    /\ Cardinality(conns) < MaxInbound
    /\ conns' = conns \cup {a}
    /\ UNCHANGED <<nPort, nListening, nListener, openL, nextL, npc, nret,
                   nodeCalls, raced>>
    /\ NodeFrame

NodeNext ==
    \/ \E g \in Goroutines :
          \/ CallStart(g)
          \/ CallStop(g)
          \/ StartLoad(g)
          \/ StartListen(g)
          \/ StartStore(g)
          \/ StopLoad(g)
          \/ StopClose(g)
          \/ StopStore(g)
    \/ \E a \in Addrs : Accept(a)

(***************************************************************************)
(* Bytes, fixed-width integers and encoding/binary.BigEndian.              *)
(* A uint64 is kept as four 16-bit limbs, most significant first, so that  *)
(* no intermediate value leaves the checker's integer range.               *)
(***************************************************************************)
ByteSample == {0, 1, 255}

RECURSIVE SeqsUpTo(_, _)
SeqsUpTo(S, n) ==
    IF n = 0 THEN {<< >>}
    ELSE LET shorter == SeqsUpTo(S, n - 1) IN
         shorter \cup {Append(q, x) : q \in {r \in shorter : Len(r) = n - 1},
                                      x \in S}

Zeros(n) == [i \in 1..n |-> 0]

\* uint64(0), and the sample of nonces
U64Zero == <<0, 0, 0, 0>>
NonceSample == {U64Zero, <<0, 0, 0, 1>>, <<258, 772, 1286, 1800>>,
                <<65535, 65535, 65535, 65535>>}

\* binary.BigEndian.PutUint64: the 8 bytes written
PutUint64(v) ==
    <<v[1] \div 256, v[1] % 256, v[2] \div 256, v[2] % 256,
      v[3] \div 256, v[3] % 256, v[4] \div 256, v[4] % 256>>

\* binary.BigEndian.Uint64 of the first 8 bytes of b
Uint64(b) ==
    <<b[1] * 256 + b[2], b[3] * 256 + b[4],
      b[5] * 256 + b[6], b[7] * 256 + b[8]>>

\* binary.BigEndian.PutUint16
PutUint16(v) == <<v \div 256, v % 256>>

\* binary.BigEndian.Uint16 of the first 2 bytes of b
Uint16(b) == b[1] * 256 + b[2]

\* s[from:] with from counted from 0, as a Go slice expression
SliceFrom(s, from) == SubSeq(s, from + 1, Len(s))

\* s[:to]
SliceTo(s, to) == SubSeq(s, 1, to)

\* s[from:to]
Slice(s, from, to) == SubSeq(s, from + 1, to)

(***************************************************************************)
(* message.Message                                                         *)
(***************************************************************************)
ZeroMessage == [Nonce |-> U64Zero, Data |-> << >>]

\* Message.Marshal: append 8 bytes to dst, write the nonce into dst[:8],
\* append the payload
MessageMarshal(m, d) ==
    LET grown == d \o Zeros(8)
        nonce == PutUint64(m.Nonce)
        put == [i \in 1..Len(grown) |-> IF i <= 8 THEN nonce[i] ELSE grown[i]]
    IN  put \o m.Data

\* Unmarshal with the length test off by one
Unmarshal_rejectsEight(data) ==
    IF Len(data) <= 8
    THEN [err |-> "ErrUnexpectedEOF", msg |-> ZeroMessage]
    ELSE [err |-> "nil",
          msg |-> [Nonce |-> Uint64(SliceTo(data, 8)), Data |-> SliceTo(data, 8)]]

\* Unmarshal
Unmarshal(data) ==
    IF Len(data) < 8
    THEN [err |-> "ErrUnexpectedEOF", msg |-> ZeroMessage]
    ELSE [err |-> "nil",
          msg |-> [Nonce |-> Uint64(SliceTo(data, 8)), Data |-> SliceTo(data, 8)]]

\* HandleContext.IsRequest
IsRequest(m) == m.Nonce # U64Zero

(***************************************************************************)
(* net.IP: a byte slice that may be nil.                                   *)
(***************************************************************************)
IPv4len == 4
IPv6len == 16

NilIP == [nil |-> TRUE, b |-> << >>]

IP(b) == [nil |-> FALSE, b |-> b]

IPLen(ip) == Len(ip.b)

v4InV6Prefix == Zeros(10) \o <<255, 255>>

\* net.IPv4(a, b, c, d): the 16-byte form
IPv4(a, b, c, d) == IP(v4InV6Prefix \o <<a, b, c, d>>)

IPv4zero == IPv4(0, 0, 0, 0)
IPv6unspecified == IP(Zeros(16))
IPv6loopback == IP(Zeros(15) \o <<1>>)

\* net.IP.To4
To4(ip) ==
    IF IPLen(ip) = IPv4len THEN ip
    ELSE IF /\ IPLen(ip) = IPv6len
            /\ Slice(ip.b, 0, 10) = Zeros(10)
            /\ ip.b[11] = 255
            /\ ip.b[12] = 255
         THEN IP(Slice(ip.b, 12, 16))
         ELSE NilIP

\* net.IP.To16
To16(ip) ==
    IF IPLen(ip) = IPv4len THEN IPv4(ip.b[1], ip.b[2], ip.b[3], ip.b[4])
    ELSE IF IPLen(ip) = IPv6len THEN ip
    ELSE NilIP

\* net.IP.Equal
IPEqual(ip, x) ==
    IF IPLen(ip) = IPLen(x) THEN ip.b = x.b
    ELSE IF IPLen(ip) = IPv4len /\ IPLen(x) = IPv6len
         THEN Slice(x.b, 0, 12) = v4InV6Prefix /\ ip.b = Slice(x.b, 12, 16)
    ELSE IF IPLen(ip) = IPv6len /\ IPLen(x) = IPv4len
         THEN Slice(ip.b, 0, 12) = v4InV6Prefix /\ Slice(ip.b, 12, 16) = x.b
    ELSE FALSE

\* net.IP.IsLoopback
IsLoopback(ip) ==
    IF ~To4(ip).nil THEN To4(ip).b[1] = 127
    ELSE IPEqual(ip, IPv6loopback)

\* net.IP.IsUnspecified
IsUnspecified(ip) == IPEqual(ip, IPv4zero) \/ IPEqual(ip, IPv6unspecified)

(***************************************************************************)
(* Strings are sequences of one-character strings.                         *)
(***************************************************************************)
Digits == <<"0", "1", "2", "3", "4", "5", "6", "7", "8", "9",
            "a", "b", "c", "d", "e", "f">>

\* strconv.FormatUint(n, 10)
RECURSIVE FormatUint(_)
FormatUint(n) ==
    IF n < 10 THEN <<Digits[n + 1]>>
    ELSE FormatUint(n \div 10) \o <<Digits[(n % 10) + 1]>>

\* netip appendHex: a 16-bit group in hexadecimal without leading zeros
AppendHex(x) ==
    (IF x >= 4096 THEN <<Digits[(x \div 4096) + 1]>> ELSE << >>)
    \o (IF x >= 256 THEN <<Digits[((x \div 256) % 16) + 1]>> ELSE << >>)
    \o (IF x >= 16 THEN <<Digits[((x \div 16) % 16) + 1]>> ELSE << >>)
    \o <<Digits[(x % 16) + 1]>>

\* net hexString: two hexadecimal digits per byte
RECURSIVE HexString(_)
HexString(b) ==
    IF b = << >> THEN << >>
    ELSE <<Digits[(Head(b) \div 16) + 1], Digits[(Head(b) % 16) + 1]>>
         \o HexString(Tail(b))

\* dotted-decimal form of 4 bytes
String4(b) ==
    FormatUint(b[1]) \o <<".">> \o FormatUint(b[2]) \o <<".">>
    \o FormatUint(b[3]) \o <<".">> \o FormatUint(b[4])

\* the i-th 16-bit group (0..7) of a 16-byte address
V6u16(b, i) == b[2 * i + 1] * 256 + b[2 * i + 2]

\* the end of the run of zero groups that starts at group i
RECURSIVE ZeroRunEnd(_, _)
ZeroRunEnd(b, j) ==
    IF j < 8 /\ V6u16(b, j) = 0 THEN ZeroRunEnd(b, j + 1) ELSE j

\* the leftmost longest run of at least two zero groups, or <<255, 255>>
RECURSIVE ZeroRun(_, _, _)
ZeroRun(b, i, best) ==
    IF i >= 8 THEN best
    ELSE LET j == ZeroRunEnd(b, i)
             l == j - i
         IN  IF l >= 2 /\ l > best[2] - best[1]
             THEN ZeroRun(b, i + 1, <<i, j>>)
             ELSE ZeroRun(b, i + 1, best)

\* netip.Addr.String of a 16-byte address, from group i on
RECURSIVE String6From(_, _, _)
String6From(b, i, run) ==
    IF i >= 8 THEN << >>
    ELSE IF i = run[1]
         THEN <<":", ":">>
              \o (IF run[2] >= 8 THEN << >>
                  ELSE AppendHex(V6u16(b, run[2]))
                       \o String6From(b, run[2] + 1, run))
         ELSE (IF i > 0 THEN <<":">> ELSE << >>)
              \o AppendHex(V6u16(b, i)) \o String6From(b, i + 1, run)

String6(b) == String6From(b, 0, ZeroRun(b, 0, <<255, 255>>))

\* net.IP.String
IPString(ip) ==
    IF IPLen(ip) = 0 THEN <<"<", "n", "i", "l", ">">>
    ELSE IF IPLen(ip) # IPv4len /\ IPLen(ip) # IPv6len
         THEN <<"?">> \o HexString(ip.b)
    ELSE IF IPLen(To4(ip)) = IPv4len THEN String4(To4(ip).b)
    ELSE String6(ip.b)

\* bytealg.IndexByteString(s, c) >= 0
Contains(str0, c) == \E i \in 1..Len(str0) : str0[i] = c

\* net.JoinHostPort
JoinHostPort(host, port) ==
    IF Contains(host, ":")
    THEN <<"[">> \o host \o <<"]", ":">> \o port
    ELSE host \o <<":">> \o port

(***************************************************************************)
(* utils.ResolveIP, utils.NormalizeIP                                      *)
(***************************************************************************)
\* ResolveIP that only filters nil
ResolveIP_nilOnly(ip) ==
    IF ip.nil THEN NilIP ELSE ip

ResolveIP(ip) ==
    IF ip.nil \/ IsLoopback(ip) \/ IsUnspecified(ip) THEN NilIP ELSE ip

NormalizeIP(ip) ==
    LET resolvedIP == ResolveIP(ip) IN
    IF resolvedIP.nil THEN << >> ELSE IPString(resolvedIP)

(***************************************************************************)
(* keys.PublicKey as id.ID uses it.  Size, Bytes and                       *)
(* UnmarshalPublicKeyFromByte are called by id.ID but are not in the       *)
(* source; they are the fixed-size raw-byte form of keys.Ed25519PublicKey. *)
(***************************************************************************)
PublicKeySize == 32

NoKey == << >>

KeySize(pubkey) == PublicKeySize

KeyBytes(pubkey) == pubkey

UnmarshalPublicKeyFromByte(b) ==
    IF Len(b) = PublicKeySize THEN [err |-> "nil", key |-> b]
    ELSE [err |-> "ErrUnexpectedEOF", key |-> NoKey]

(***************************************************************************)
(* id.ID                                                                   *)
(***************************************************************************)
ZeroID == [ID |-> NoKey, Host |-> NilIP, Port |-> 0]

\* NewID
NewID(key, host, port) == [ID |-> key, Host |-> host, Port |-> port]

\* ID.Address
Address(i) == JoinHostPort(NormalizeIP(i.Host), FormatUint(i.Port))

\* ID.Size
IDSize(i) == KeySize(i.ID) + IPv4len + 2

\* ID.Marshal with the port low byte first
IDMarshal_portLittleEndian(e) ==
    KeyBytes(e.ID) \o To16(e.Host).b \o <<e.Port % 256, e.Port \div 256>>

\* ID.Marshal
IDMarshal(e) ==
    LET pubKeyBytes == KeyBytes(e.ID)
        hostBytes == To16(e.Host).b
        portBytes == PutUint16(e.Port)
    IN  (pubKeyBytes \o hostBytes) \o portBytes

\* UnmarshalID
UnmarshalID(b, pubkey) ==
    LET expectedSize == KeySize(pubkey) + IPv6len + 2 IN
    IF Len(b) < expectedSize
    THEN [err |-> "ErrUnexpectedEOF", id |-> ZeroID]
    ELSE LET k == UnmarshalPublicKeyFromByte(SliceTo(b, KeySize(pubkey))) IN
         IF k.err # "nil"
         THEN [err |-> k.err, id |-> ZeroID]
         ELSE [err |-> "nil",
               id |-> [ID |-> k.key,
                       Host |-> IP(Slice(b, KeySize(pubkey),
                                         KeySize(pubkey) + IPv6len)),
                       Port |-> Uint16(SliceFrom(b, KeySize(pubkey) + IPv6len))]]

(***************************************************************************)
(* The codecs applied to sampled inputs.                                   *)
(***************************************************************************)
DataSample == SeqsUpTo(ByteSample, MaxDataLen)

DstSample == SeqsUpTo(ByteSample, MaxDstLen) \cup {<<9, 8, 7, 6, 5, 4, 3, 2, 1>>}

MsgSample == [Nonce : NonceSample, Data : DataSample]

KeySample == {[i \in 1..PublicKeySize |-> 0], [i \in 1..PublicKeySize |-> i],
              [i \in 1..PublicKeySize |-> 255]}

V4Sample == {<<a, b, 0, d>> : a \in {0, 10, 127, 192}, b \in {0, 168},
                              d \in {0, 1, 255}}

V6Sample == {Zeros(16), Zeros(15) \o <<1>>,
             <<32, 1, 13, 184>> \o Zeros(11) \o <<1>>,
             <<254, 128>> \o Zeros(6) \o <<0, 1, 0, 0, 0, 0, 0, 1>>,
             <<0, 1>> \o Zeros(14),
             Zeros(4) \o <<0, 1>> \o Zeros(10),
             Zeros(8) \o <<255, 255, 0, 0, 0, 0, 0, 1>>,
             <<0, 1, 0, 0, 0, 0, 0, 2, 0, 0, 0, 0, 0, 0, 0, 3>>,
             [i \in 1..16 |-> 255]}

HostSample ==
    {NilIP, IP(<< >>), IP(<<1, 2, 3>>)}
    \cup {IP(b) : b \in V4Sample}
    \cup {IPv4(b[1], b[2], b[3], b[4]) : b \in V4Sample}
    \cup {IP(b) : b \in V6Sample}

PortSample == {0, 80, 8080, 65535}

IDSample == {NewID(k, h, p) : k \in KeySample, h \in HostSample, p \in PortSample}

\* buffers of every length up to a little over an encoded ID
Fill(kind, i) ==
    IF kind = "zero" THEN 0 ELSE IF kind = "ff" THEN 255 ELSE i % 256

BufSample ==
    {[i \in 1..n |-> Fill(kind, i)] :
        n \in 0..(PublicKeySize + IPv6len + 2 + MaxExtra),
        kind \in {"zero", "ff", "count"}}

\* the key value UnmarshalID is given for its size
KeyProto == Zeros(PublicKeySize)

NoDec == [err |-> "none", msg |-> ZeroMessage]
NoDecID == [err |-> "none", id |-> ZeroID]
NoNum == 0 - 1

CodecResults ==
    /\ cop = {} /\ wire = << >> /\ dec = NoDec /\ decID = NoDecID
    /\ num = NoNum /\ str = << >>

CodecInit ==
    /\ \/ /\ cin = "msg"
          /\ msg \in MsgSample /\ dst \in DstSample
          /\ buf = << >> /\ idv = ZeroID
       \/ /\ cin = "buf"
          /\ buf \in BufSample
          /\ msg = ZeroMessage /\ dst = << >> /\ idv = ZeroID
       \/ /\ cin = "id"
          /\ idv \in IDSample
          /\ msg = ZeroMessage /\ dst = << >> /\ buf = << >>
    /\ CodecResults

CodecOff ==
    /\ cin = "none" /\ msg = ZeroMessage /\ dst = << >> /\ buf = << >>
    /\ idv = ZeroID
    /\ CodecResults

\* msg.Marshal(dst)
DoMarshal ==
    /\ cin = "msg" /\ "Marshal" \notin cop
    /\ wire' = MessageMarshal(msg, dst)
    /\ cop' = cop \cup {"Marshal"}
    /\ UNCHANGED <<cin, msg, dst, buf, idv, dec, decID, num, str>>
    /\ CodecFrame

\* Unmarshal of what msg.Marshal(dst) returned
DoUnmarshalWire ==
    /\ cin = "msg" /\ "Marshal" \in cop /\ "Unmarshal" \notin cop
    /\ dec' = Unmarshal(wire)
    /\ cop' = cop \cup {"Unmarshal"}
    /\ UNCHANGED <<cin, msg, dst, buf, idv, wire, decID, num, str>>
    /\ CodecFrame

\* Unmarshal(buf)
DoUnmarshal ==
    /\ cin = "buf" /\ "Unmarshal" \notin cop
    /\ dec' = Unmarshal(buf)
    /\ cop' = cop \cup {"Unmarshal"}
    /\ UNCHANGED <<cin, msg, dst, buf, idv, wire, decID, num, str>>
    /\ CodecFrame

\* UnmarshalID(buf, pubkey)
DoUnmarshalID ==
    /\ cin = "buf" /\ "UnmarshalID" \notin cop
    /\ decID' = UnmarshalID(buf, KeyProto)
    /\ cop' = cop \cup {"UnmarshalID"}
    /\ UNCHANGED <<cin, msg, dst, buf, idv, wire, dec, num, str>>
    /\ CodecFrame

\* id.Marshal()
DoIDMarshal ==
    /\ cin = "id" /\ "Marshal" \notin cop
    /\ wire' = IDMarshal(idv)
    /\ cop' = cop \cup {"Marshal"}
    /\ UNCHANGED <<cin, msg, dst, buf, idv, dec, decID, num, str>>
    /\ CodecFrame

\* UnmarshalID of what id.Marshal() returned
DoUnmarshalIDWire ==
    /\ cin = "id" /\ "Marshal" \in cop /\ "UnmarshalID" \notin cop
    /\ decID' = UnmarshalID(wire, idv.ID)
    /\ cop' = cop \cup {"UnmarshalID"}
    /\ UNCHANGED <<cin, msg, dst, buf, idv, wire, dec, num, str>>
    /\ CodecFrame

\* id.Size()
DoSize ==
    /\ cin = "id" /\ "Size" \notin cop
    /\ num' = IDSize(idv)
    /\ cop' = cop \cup {"Size"}
    /\ UNCHANGED <<cin, msg, dst, buf, idv, wire, dec, decID, str>>
    /\ CodecFrame

\* id.Address()
DoAddress ==
    /\ cin = "id" /\ "Address" \notin cop
    /\ str' = Address(idv)
    /\ cop' = cop \cup {"Address"}
    /\ UNCHANGED <<cin, msg, dst, buf, idv, wire, dec, decID, num>>
    /\ CodecFrame

CodecNext ==
    \/ DoMarshal
    \/ DoUnmarshalWire
    \/ DoUnmarshal
    \/ DoUnmarshalID
    \/ DoIDMarshal
    \/ DoUnmarshalIDWire
    \/ DoSize
    \/ DoAddress

(***************************************************************************)
(* Specifications: one per component, the other components at rest.        *)
(***************************************************************************)
InitRegistry == RegInit /\ CtxOff /\ NodeOff /\ CodecOff

InitContext == CtxInit /\ RegOff /\ NodeOff /\ CodecOff

InitNode == NodeInit /\ RegOff /\ CtxOff /\ CodecOff

InitCodec == CodecInit /\ RegOff /\ CtxOff /\ NodeOff

SpecRegistry ==
    /\ InitRegistry
    /\ [][RegNext]_vars

SpecContext ==
    /\ InitContext
    /\ [][CtxNext]_vars

SpecNode ==
    /\ InitNode
    /\ [][NodeNext]_vars

SpecCodec ==
    /\ InitCodec
    /\ [][CodecNext]_vars

(***************************************************************************)
(* C1: a registry built with capacity C never holds more than C entries,   *)
(* in any state of any interleaving of callers that each run put under the *)
(* mutex; a put of a new address into a full registry has evicted exactly  *)
(* one entry when it comes to insert.                                      *)
(***************************************************************************)
C1_CapacityNeverExceeded ==
    /\ Cardinality(Keys) <= capArg
    /\ \A t \in Callers :
          pc[t] = "insert" => /\ Cardinality(Keys) < capArg
                             /\ cur[t].ev \in {0, 1}
                             /\ (cur[t].ev = 1
                                   => Cardinality(Keys) = capArg - 1)

\* a put has evicted from a full registry and inserted, while the other
\* caller waits for the mutex with a put of its own
C1_Witness ==
    /\ lastEvict # NoEvict
    /\ Cardinality(Keys) = capArg
    /\ \E t \in Callers : pc[t] = "unlock" /\ cur[t].kind = "put"
                           /\ cur[t].ev = 1
    /\ \E t \in Callers : pc[t] = "lock" /\ cur[t].kind = "put"

(***************************************************************************)
(* C2: the entry a put evicts from a full registry is the one whose most   *)
(* recent touch (a get hit, or a put of its address) is the oldest; with   *)
(* capacity 2, put(a), put(b), get(a), put(c) evicts b and leaves {a, c}.  *)
(***************************************************************************)
C2_EvictsLeastRecentlyTouched ==
    /\ lastEvict # NoEvict => lastEvict.stalest = {lastEvict.addr}
    /\ (capArg = 2 /\ scen = Len(Scenario)
          /\ \A t \in Callers : pc[t] # "insert")
          => /\ Keys = {"a", "c"}
             /\ lastEvict.addr = "b"

\* the scenario of section 8 has run on a registry of capacity 2
C2_Witness ==
    /\ capArg = 2
    /\ scen = Len(Scenario)
    /\ lastEvict.addr = "b"

(***************************************************************************)
(* C3: on one dispatch context markResponseSent succeeds for exactly one   *)
(* caller and fails with ResponseAlreadySent for every other, sequential   *)
(* or concurrent; Send goes from false to true once and never back.        *)
(***************************************************************************)
C3_Calls(c) == {h \in Handlers : hctx[h] = c /\ hpc[h] = "ret"}

C3_State ==
    \A c \in Contexts :
        /\ okCount[c] <= 1
        /\ (okCount[c] + failCount[c] >= 1) => okCount[c] = 1
        /\ ctxSend[c] = (okCount[c] = 1)
        /\ Cardinality({h \in C3_Calls(c) : hret[h] = "ok"}) <= 1
        /\ \A h \in C3_Calls(c) : hret[h] \in {"ok", "ResponseAlreadySent"}

C3_AtMostOneResponse ==
    /\ []C3_State
    /\ [][\A c \in Contexts : ctxSend[c] => ctxSend'[c]]_vars

\* three handlers called concurrently on one context: one succeeded, the
\* other two failed
C3_Witness ==
    \E c \in Contexts :
        /\ \A h \in Handlers : hctx[h] = c /\ hpc[h] = "ret"
        /\ okCount[c] = 1
        /\ failCount[c] = 2

(***************************************************************************)
(* C9 as stated: start() on a listening node and stop() on a stopped node  *)
(* return without error and change nothing, also when two starts or two    *)
(* stops race, and at most one listener is ever open.                      *)
(***************************************************************************)
C9_NodeState == <<nListening, nListener, openL, conns>>

C9_NoOpStep ==
    \A g \in Goroutines :
        /\ (npc[g] = "start" /\ npc'[g] # "start" /\ nListening)
              => /\ npc'[g] = "idle" /\ nret'[g] = "nil"
                 /\ UNCHANGED C9_NodeState
        /\ (npc[g] = "stop" /\ npc'[g] # "stop" /\ ~nListening)
              => /\ npc'[g] = "idle" /\ nret'[g] = "nil"
                 /\ UNCHANGED C9_NodeState

C9_Quiet == \A g \in Goroutines : npc[g] = "idle"

C9_Sequential ==
    ~raced =>
        /\ Cardinality(openL) <= 1
        /\ C9_Quiet => /\ nListening = (nListener \in openL)
                       /\ openL = (IF nListening THEN {nListener} ELSE {})
        /\ \A g \in Goroutines : nret[g] # "error"

C4_UnmarshalNonceAndPayload ==
    /\ (cin = "buf" /\ "Unmarshal" \in cop /\ Len(buf) >= 8)
          => /\ dec.err = "nil"
             /\ \A k \in 1..4 :
                   dec.msg.Nonce[k] = buf[2 * k - 1] * 256 + buf[2 * k]
             /\ dec.msg.Data = SubSeq(buf, 9, Len(buf))
    /\ (cin = "msg" /\ dst = << >> /\ "Unmarshal" \in cop)
          => /\ dec.err = "nil"
             /\ dec.msg.Nonce = msg.Nonce
             /\ dec.msg.Data = msg.Data

(***************************************************************************)
(* C5 as stated: Marshal(dst) returns dst's bytes unchanged, then the 8    *)
(* big-endian bytes of the nonce, then the payload.                        *)
(***************************************************************************)
C5_NonceBytes(n) ==
    [i \in 1..8 |-> IF i % 2 = 1 THEN n[(i + 1) \div 2] \div 256
                    ELSE n[i \div 2] % 256]

C5_MarshalAppends ==
    (cin = "msg" /\ "Marshal" \in cop)
        => wire = dst \o C5_NonceBytes(msg.Nonce) \o msg.Data

(***************************************************************************)
(* C6: for an identity whose host is an IPv4 or IPv6 address, UnmarshalID  *)
(* of what Marshal returned succeeds and gives the same public key, the    *)
(* same port and the same host (the same address, in its 16-byte form).    *)
(***************************************************************************)
C6_ValidHost(h) == ~h.nil /\ IPLen(h) \in {4, 16}

C6_As16(h) == IF IPLen(h) = 4 THEN Zeros(10) \o <<255, 255>> \o h.b ELSE h.b

C6_IDRoundTrip ==
    (cin = "id" /\ "UnmarshalID" \in cop /\ C6_ValidHost(idv.Host))
        => /\ decID.err = "nil"
           /\ decID.id.ID = idv.ID
           /\ decID.id.Port = idv.Port
           /\ ~decID.id.Host.nil
           /\ decID.id.Host.b = C6_As16(idv.Host)
           /\ IPEqual(decID.id.Host, idv.Host)

\* an identity with a 4-byte IPv4 host and a two-byte port went through
\* Marshal and UnmarshalID
C6_Witness ==
    /\ cin = "id"
    /\ "UnmarshalID" \in cop
    /\ IPLen(idv.Host) = 4
    /\ idv.Port = 8080
    /\ decID.err = "nil"
    /\ decID.id.Port = 8080

(***************************************************************************)
(* C7: UnmarshalID fails with the truncated-input error exactly for the    *)
(* buffers shorter than publicKeySize + 18 bytes, Unmarshal exactly for    *)
(* those shorter than 8 bytes, and a failed decode returns the zero value. *)
(***************************************************************************)
C7_TruncatedInputRejected ==
    /\ (cin = "buf" /\ "UnmarshalID" \in cop)
          => /\ (decID.err = "ErrUnexpectedEOF") = (Len(buf) < PublicKeySize + 18)
             /\ (decID.err # "nil") => decID.id = ZeroID
             /\ (Len(buf) >= PublicKeySize + 18) => decID.err = "nil"
    /\ (cin = "buf" /\ "Unmarshal" \in cop)
          => /\ (dec.err = "ErrUnexpectedEOF") = (Len(buf) < 8)
             /\ (dec.err # "nil") => dec.msg = ZeroMessage
             /\ (Len(buf) >= 8) => dec.err = "nil"

\* both decoders ran on a buffer one byte short of an encoded identity:
\* UnmarshalID rejected it, Unmarshal did not
C7_Witness ==
    /\ cin = "buf"
    /\ Len(buf) = PublicKeySize + 17
    /\ "UnmarshalID" \in cop /\ decID.err = "ErrUnexpectedEOF"
    /\ "Unmarshal" \in cop /\ dec.err = "nil"

(***************************************************************************)
(* C8 as stated: Size() is publicKeySize + 16 + 2, the length of what      *)
(* Marshal returns for an IPv4 or IPv6 host and the least length           *)
(* UnmarshalID accepts.                                                    *)
(***************************************************************************)
C8_SizeIsEncodedLength ==
    (cin = "id" /\ "Size" \in cop)
        => /\ num = PublicKeySize + 16 + 2
           /\ ("Marshal" \in cop /\ C6_ValidHost(idv.Host)) => num = Len(wire)
           /\ UnmarshalID(Zeros(num), idv.ID).err = "nil"

(***************************************************************************)
(* C10: Address() is host:port with the given port; the host part is       *)
(* empty when the host is nil, loopback or unspecified, and the textual    *)
(* form of the IP otherwise; peers with such hosts and one port share one  *)
(* address string.                                                         *)
(***************************************************************************)
C10_Local(h) ==
    \/ h.nil
    \/ IPLen(h) = 4 /\ (h.b[1] = 127 \/ h.b = <<0, 0, 0, 0>>)
    \/ /\ IPLen(h) = 16
       /\ \/ h.b = Zeros(16)
          \/ h.b = Zeros(15) \o <<1>>
          \/ /\ SubSeq(h.b, 1, 12) = Zeros(10) \o <<255, 255>>
             /\ (h.b[13] = 127 \/ SubSeq(h.b, 13, 16) = <<0, 0, 0, 0>>)

\* the index of the last ":" of a string
C10_LastColon(q) ==
    CHOOSE i \in 1..Len(q) : q[i] = ":" /\ \A j \in (i + 1)..Len(q) : q[j] # ":"

\* host and port parts of host:port or [host]:port
C10_Split(q) ==
    LET c == C10_LastColon(q)
        h == SubSeq(q, 1, c - 1)
    IN  [host |-> IF h # << >> /\ h[1] = "[" /\ h[Len(h)] = "]"
                  THEN SubSeq(h, 2, Len(h) - 1) ELSE h,
         port |-> SubSeq(q, c + 1, Len(q))]

C10_DigitValue(ch) == CHOOSE d \in 0..9 : Digits[d + 1] = ch

RECURSIVE C10_ParseUint(_)
C10_ParseUint(q) ==
    IF Len(q) = 1 THEN C10_DigitValue(q[1])
    ELSE 10 * C10_ParseUint(SubSeq(q, 1, Len(q) - 1)) + C10_DigitValue(q[Len(q)])

C10_AddressNormalizesHost ==
    (cin = "id" /\ "Address" \in cop)
        => /\ Contains(str, ":")
           /\ C10_ParseUint(C10_Split(str).port) = idv.Port
           /\ C10_Local(idv.Host)
                => /\ C10_Split(str).host = << >>
                   /\ str[1] = ":"
                   /\ \A k \in KeySample, h \in HostSample :
                         C10_Local(h) => Address(NewID(k, h, idv.Port)) = str
           /\ ~C10_Local(idv.Host)
                => /\ C10_Split(str).host = IPString(idv.Host)
                   /\ C10_Split(str).host # << >>

\* Address() of a peer on 127.0.0.1, port 8080, is ":8080"
C10_Witness ==
    /\ cin = "id"
    /\ "Address" \in cop
    /\ idv.Host = IP(<<127, 0, 0, 1>>)
    /\ idv.Port = 8080
    /\ str = <<":", "8", "0", "8", "0">>

(***************************************************************************)
(* C11: when the idle sweep and a capacity-driven eviction (or an explicit *)
(* remove) go for the same registry entry, in any interleaving, the entry  *)
(* leaves the map and the order list once and its connection is closed     *)
(* once; the remover that comes later finds the address absent and changes *)
(* nothing; and no step removes any other entry.                           *)
(***************************************************************************)
\* no connection is closed twice, and no registered connection is closed
C11_State ==
    /\ \A h \in DOMAIN closed : closed[h] = 1
    /\ \A a \in Keys : entries[a] \notin DOMAIN closed

\* a remover going for address a: a present entry leaves the map and the
\* list and its connection is closed for the first time, an absent one
\* leaves everything as it is
C11_RemovedOnce(a) ==
    IF a \in Keys
    THEN /\ DOMAIN entries' = Keys \ {a}
         /\ \A b \in Keys \ {a} : entries'[b] = entries[b]
         /\ Len(order') = Len(order) - 1
         /\ Range(order') = Range(order) \ {a}
         /\ entries[a] \notin DOMAIN closed
         /\ DOMAIN closed' = DOMAIN closed \cup {entries[a]}
         /\ closed'[entries[a]] = 1
         /\ \A h \in DOMAIN closed : closed'[h] = closed[h]
    ELSE /\ entries' = entries
         /\ order' = order
         /\ closed' = closed

C11_Step ==
    \A t \in Callers :
        /\ (pc[t] \in {"sweep", "remove"} /\ pc'[t] = "unlock")
              => C11_RemovedOnce(cur[t].addr)
        /\ (pc[t] = "put" /\ pc'[t] = "insert" /\ Cardinality(Keys) = cmCap)
              => C11_RemovedOnce(Back(order))
        /\ (pc'[t] # pc[t] /\ pc[t] \notin {"sweep", "remove"}
              /\ ~(pc[t] = "put" /\ pc'[t] = "insert"
                     /\ Cardinality(Keys) = cmCap))
              => /\ closed' = closed
                 /\ Keys \subseteq DOMAIN entries'
                 /\ Range(order) \subseteq Range(order')

C12_OrderMatchesEntries ==
    /\ Range(order) = Keys
    /\ Len(order) = Cardinality(Keys)
    /\ \A i, j \in 1..Len(order) : i # j => order[i] # order[j]
    /\ DOMAIN touch = Keys
    /\ \A i, j \in 1..Len(order) : i < j => touch[order[i]] > touch[order[j]]
    /\ order # << >> => Stalest = {Back(order)}

\* a get has just promoted an entry over one that was put after it: the
\* registry holds two entries and the tail is the younger connection
C12_Witness ==
    /\ Len(order) = 2
    /\ entries[Back(order)] > entries[order[1]]
    /\ \E t \in Callers : /\ pc[t] = "unlock"
                           /\ cur[t].kind = "get"
                           /\ cur[t].addr = order[1]

====
